---- MODULE Spec2Model ----
(***************************************************************************)
(* The QRZ logbook download of scripts/debug_qrz_download.py: the response *)
(* field parser, the ADIF record parser, the status check and the          *)
(* AFTERLOGID pagination loop, against a logbook service that answers      *)
(* FETCH and STATUS requests.                                              *)
(*                                                                         *)
(* Text is a sequence of one-character strings; an index is 1-based and    *)
(* 0 stands for Python's "not found" (-1). The one character outside ASCII *)
(* is U+00B2 SUPERSCRIPT TWO, written "^2".                                *)
(***************************************************************************)
EXTENDS Integers, Sequences, FiniteSets, TLC

\* ------------------------------------------------------------------ text

Digits == <<"0","1","2","3","4","5","6","7","8","9">>
UpperAlpha == <<"A","B","C","D","E","F","G","H","I","J","K","L","M","N","O","P","Q","R","S","T","U","V","W","X","Y","Z">>
LowerAlpha == <<"a","b","c","d","e","f","g","h","i","j","k","l","m","n","o","p","q","r","s","t","u","v","w","x","y","z">>
Whitespace == {" ", "\t", "\n", "\r"}

IsDigit(c) == \E i \in 1..10 : Digits[i] = c
DigitVal(c) == (CHOOSE i \in 1..10 : Digits[i] = c) - 1
IsUpper(c) == \E i \in 1..26 : UpperAlpha[i] = c
IsLower(c) == \E i \in 1..26 : LowerAlpha[i] = c
\* \w of a str pattern, over the ASCII alphabet of the model
IsWordChar(c) == IsDigit(c) \/ IsUpper(c) \/ IsLower(c) \/ c = "_"
ToLower(c) == IF IsUpper(c) THEN LowerAlpha[CHOOSE i \in 1..26 : UpperAlpha[i] = c] ELSE c
ToUpper(c) == IF IsLower(c) THEN UpperAlpha[CHOOSE i \in 1..26 : LowerAlpha[i] = c] ELSE c
\* str.lower, str.upper
lower(s) == [i \in 1..Len(s) |-> ToLower(s[i])]
upper(s) == [i \in 1..Len(s) |-> ToUpper(s[i])]

\* s[i:] starts with p (i is 1-based)
StartsWithAt(s, i, p) ==
    /\ i + Len(p) - 1 <= Len(s)
    /\ \A k \in 1..Len(p) : s[i + k - 1] = p[k]
\* str.find: the first index at which p occurs in s, 0 when it does not
find(s, p) ==
    LET hits == {i \in 1..(Len(s) + 1) : StartsWithAt(s, i, p)}
    IN  IF hits = {} THEN 0 ELSE CHOOSE i \in hits : \A j \in hits : i <= j
\* p in s
Contains(s, p) == find(s, p) # 0

\* str.split(c) on a one-character separator
RECURSIVE split(_, _)
split(s, c) ==
    LET i == find(s, <<c>>)
    IN  IF i = 0 THEN <<s>>
        ELSE <<SubSeq(s, 1, i - 1)>> \o split(SubSeq(s, i + 1, Len(s)), c)

\* str.strip
RECURSIVE lstrip(_)
lstrip(s) == IF s # <<>> /\ Head(s) \in Whitespace THEN lstrip(Tail(s)) ELSE s
RECURSIVE rstrip(_)
rstrip(s) ==
    IF s # <<>> /\ s[Len(s)] \in Whitespace THEN rstrip(SubSeq(s, 1, Len(s) - 1)) ELSE s
strip(s) == rstrip(lstrip(s))

\* U+00B2: str.isdigit holds of it, \d does not match it and int() rejects it
Superscript2 == "^2"
\* str.isdigit
isdigit(s) == s # <<>> /\ \A i \in 1..Len(s) : IsDigit(s[i]) \/ s[i] = Superscript2

\* the value of a string of decimal digits
RECURSIVE DecimalValue(_)
DecimalValue(s) ==
    IF s = <<>> THEN 0
    ELSE 10 * DecimalValue(SubSeq(s, 1, Len(s) - 1)) + DigitVal(s[Len(s)])

\* str(n) for n >= 0
RECURSIVE IntToStr(_)
IntToStr(n) ==
    IF n < 10 THEN <<Digits[n + 1]>> ELSE IntToStr(n \div 10) \o <<Digits[(n % 10) + 1]>>

\* int(s): surrounding whitespace, an optional sign, digits with single
\* underscores between them; anything else raises ValueError
IntLiteralOk(s) ==
    LET t == strip(s)
        b == IF t # <<>> /\ Head(t) \in {"+", "-"} THEN Tail(t) ELSE t
    IN  /\ b # <<>>
        /\ \A i \in 1..Len(b) : IsDigit(b[i]) \/ b[i] = "_"
        /\ IsDigit(b[1]) /\ IsDigit(b[Len(b)])
        /\ \A i \in 1..(Len(b) - 1) : ~(b[i] = "_" /\ b[i + 1] = "_")
IntLiteralValue(s) ==
    LET t == strip(s)
        neg == t # <<>> /\ Head(t) = "-"
        b == IF t # <<>> /\ Head(t) \in {"+", "-"} THEN Tail(t) ELSE t
        v == DecimalValue(SelectSeq(b, IsDigit))
    IN  IF neg THEN 0 - v ELSE v

\* ------------------------------------------------------------ dictionaries

EmptyDict == [k \in {} |-> <<>>]
\* d[k] = v
put(d, k, v) == [x \in (DOMAIN d) \cup {k} |-> IF x = k THEN v ELSE d[x]]
\* d.get(k, default)
get(d, k, default) == IF k \in DOMAIN d THEN d[k] ELSE default

\* ---------------------------------------------------- response field parser

K_RESULT == <<"R","E","S","U","L","T">>
K_REASON == <<"R","E","A","S","O","N">>
K_COUNT == <<"C","O","U","N","T">>
K_ADIF == <<"A","D","I","F">>
K_CALLSIGN == <<"C","A","L","L","S","I","G","N">>
K_BOOKID == <<"B","O","O","K","I","D">>
K_CONFIRMED == <<"C","O","N","F","I","R","M","E","D">>
V_OK == <<"O","K">>
V_FAIL == <<"F","A","I","L">>
V_AUTH == <<"A","U","T","H">>
adif_marker == <<"A","D","I","F","=">>
no_entries_needle == <<"n","o"," ","l","o","g"," ","e","n","t","r","i","e","s"," ","f","o","u","n","d">>

\* for pair in pairs: parts = pair.split("=", 1); if len(parts) >= 2: result[parts[0]] = parts[1]
RECURSIVE AssignPairs(_, _)
AssignPairs(pairs, result) ==
    IF pairs = <<>> THEN result
    ELSE LET pair == Head(pairs)
             eq == find(pair, <<"=">>)
         IN  AssignPairs(Tail(pairs),
                 IF eq # 0
                 THEN put(result, SubSeq(pair, 1, eq - 1), SubSeq(pair, eq + 1, Len(pair)))
                 ELSE result)

parse_response(response) ==
    LET adif_pos == find(response, adif_marker)
    IN  IF adif_pos # 0
        THEN LET before_adif == SubSeq(response, 1, adif_pos - 1)
                 pairs == SelectSeq(split(before_adif, "&"), LAMBDA pair : pair # <<>>)
             IN  put(AssignPairs(pairs, EmptyDict), K_ADIF,
                     SubSeq(response, adif_pos + Len(adif_marker), Len(response)))
        ELSE AssignPairs(split(response, "&"), EmptyDict)

\* ------------------------------------------------------------ ADIF decoding

\* the named character references the service's escaping uses, as html.unescape
\* knows them: with the semicolon and, for these, without
EntityTable ==
    LET named == <<  <<<<"l","t">>, "<">>, <<<<"g","t">>, ">">>, <<<<"a","m","p">>, "&">>, <<<<"q","u","o","t">>, "\"">>  >>
    IN  [n \in {named[i][1] : i \in 1..4} \cup {named[i][1] \o <<";">> : i \in 1..4} |->
            LET i == CHOOSE j \in 1..4 : n \in {named[j][1], named[j][1] \o <<";">>}
            IN  named[i][2]]
EntityStop == {"\t", "\n", "\f", " ", "<", "&", "#", ";"}
EntityMaxName == 32

\* the text a matched reference &s is replaced by (_replace_charref, named form)
ReplaceCharref(s) ==
    IF s \in DOMAIN EntityTable THEN <<EntityTable[s]>>
    ELSE LET cuts == {x \in 2..(Len(s) - 1) : SubSeq(s, 1, x) \in DOMAIN EntityTable}
         IN  IF cuts = {} THEN <<"&">> \o s
             ELSE LET x == CHOOSE c \in cuts : \A o \in cuts : o <= c
                  IN  <<EntityTable[SubSeq(s, 1, x)]>> \o SubSeq(s, x + 1, Len(s))

\* the first index j >= i with s[j] in cs, Len(s) + 1 when there is none
NextIn(s, i, cs) ==
    CHOOSE j \in i..(Len(s) + 1) :
        /\ j = Len(s) + 1 \/ s[j] \in cs
        /\ \A k \in i..(j - 1) : s[k] \notin cs

\* html.unescape, left to right, one pass: the text up to the next "&" is
\* copied, a reference is replaced, a bare "&" is kept
RECURSIVE Unescape(_, _)
Unescape(s, i) ==
    LET amp == NextIn(s, i, {"&"})
    IN  IF amp > Len(s) THEN SubSeq(s, i, Len(s))
        ELSE LET stopAt == NextIn(s, amp + 1, EntityStop)
                 last == IF stopAt - 1 - amp > EntityMaxName THEN amp + EntityMaxName
                         ELSE stopAt - 1
                 semi == last < Len(s) /\ s[last + 1] = ";"
                 stop == IF semi THEN last + 1 ELSE last
             IN  SubSeq(s, i, amp - 1)
                 \o (IF last = amp THEN <<"&">> ELSE ReplaceCharref(SubSeq(s, amp + 1, stop)))
                 \o Unescape(s, (IF last = amp THEN amp ELSE stop) + 1)

decode_adif(encoded) == IF Contains(encoded, <<"&">>) THEN Unescape(encoded, 1) ELSE encoded

\* ------------------------------------------------------------ ADIF records

T_CALL == <<"C","A","L","L">>
T_BAND == <<"B","A","N","D">>
T_MODE == <<"M","O","D","E">>
T_QSO_DATE == <<"Q","S","O","_","D","A","T","E">>
T_TIME_ON == <<"T","I","M","E","_","O","N">>
T_LOGID == <<"A","P","P","_","Q","R","Z","L","O","G","_","L","O","G","I","D">>
eor == <<"<","e","o","r",">">>

\* Optional[...]: None is the empty sequence, a value v is <<v>>
None == <<>>
Some(v) == <<v>>

\* re.split(r'<eor>', adif, flags=re.IGNORECASE)
RECURSIVE SplitEor(_)
SplitEor(adif) ==
    LET i == find(lower(adif), eor)
    IN  IF i = 0 THEN <<adif>>
        ELSE <<SubSeq(adif, 1, i - 1)>> \o SplitEor(SubSeq(adif, i + Len(eor), Len(adif)))

\* the character classes of the field pattern: \w, \d, [^>], [^<]
InClass(c, cls) ==
    CASE cls = "w" -> IsWordChar(c)
      [] cls = "d" -> IsDigit(c)
      [] cls = "notgt" -> c # ">"
      [] cls = "notlt" -> c # "<"

\* the length of the longest run of characters of class cls that starts at s[i]
RunLen(s, i, cls) ==
    LET j == CHOOSE e \in i..(Len(s) + 1) :
                 /\ e = Len(s) + 1 \/ ~InClass(s[e], cls)
                 /\ \A k \in i..(e - 1) : InClass(s[k], cls)
    IN  j - i

\* one match of <(\w+):(\d+)(?::[^>]*)?>([^<]*) anchored at record[pos]
MatchFieldAt(record, pos) ==
    LET nameLen == RunLen(record, pos + 1, "w")
        colon == pos + 1 + nameLen
        numLen == RunLen(record, colon + 1, "d")
        afterNum == colon + 1 + numLen
        typeLen == IF afterNum <= Len(record) /\ record[afterNum] = ":"
                   THEN RunLen(record, afterNum + 1, "notgt") ELSE 0
        close == IF afterNum <= Len(record) /\ record[afterNum] = ":"
                 THEN afterNum + 1 + typeLen ELSE afterNum
        valLen == RunLen(record, close + 1, "notlt")
        ok == /\ pos <= Len(record) /\ record[pos] = "<"
              /\ nameLen >= 1
              /\ colon <= Len(record) /\ record[colon] = ":"
              /\ numLen >= 1
              /\ close <= Len(record) /\ record[close] = ">"
    IN  IF ok
        THEN [ok |-> TRUE,
              name |-> SubSeq(record, pos + 1, colon - 1),
              len |-> DecimalValue(SubSeq(record, colon + 1, afterNum - 1)),
              value |-> SubSeq(record, close + 1, close + valLen),
              end |-> close + valLen + 1]
        ELSE [ok |-> FALSE, name |-> <<>>, len |-> 0, value |-> <<>>, end |-> pos + 1]

\* for match in re.finditer(pattern, record): fields[name.upper()] = value[:field_len]
\* (a match starts at a "<": the scan moves from one "<" to the next, and
\* goes on behind a match)
RECURSIVE ScanFields(_, _, _)
RECURSIVE ScanFrom(_, _, _)
RECURSIVE ScanMatch(_, _, _, _)
ScanFields(record, pos, fields) == ScanFrom(record, NextIn(record, pos, {"<"}), fields)
ScanFrom(record, lt, fields) ==
    IF lt > Len(record) THEN fields
    ELSE ScanMatch(record, lt, MatchFieldAt(record, lt), fields)
ScanMatch(record, lt, m, fields) ==
    IF m.ok
    THEN ScanFields(record, m.end,
             put(fields, upper(m.name),
                 SubSeq(m.value, 1, IF m.len < Len(m.value) THEN m.len ELSE Len(m.value))))
    ELSE ScanFields(record, lt + 1, fields)

\* ------------------------------------------------------------ timestamps

CharIn(t, p, set) == p >= 1 /\ p <= Len(t) /\ t[p] \in set
D09 == {Digits[i] : i \in 1..10}
D19 == {Digits[i] : i \in 2..10}

\* the lengths, in the order the pattern tries them, that directive g of
\* datetime.strptime can consume at t[p]:
\*   Y \d\d\d\d      m 1[0-2]|0[1-9]|[1-9]     d 3[0-1]|[1-2]\d|0[1-9]|[1-9]| [1-9]
\*   H 2[0-3]|[0-1]\d|\d      M [0-5]\d|\d      S 6[0-1]|[0-5]\d|\d
DirectiveLens(g, t, p) ==
    LET two(a, b) == CharIn(t, p, a) /\ CharIn(t, p + 1, b)
        opt(cond, n) == IF cond THEN <<n>> ELSE <<>>
    IN  CASE g = "Y" -> opt(\A k \in 0..3 : CharIn(t, p + k, D09), 4)
          [] g = "m" -> opt(two({"1"}, {"0", "1", "2"}) \/ two({"0"}, D19), 2)
                        \o opt(CharIn(t, p, D19), 1)
          [] g = "d" -> opt(two({"3"}, {"0", "1"}) \/ two({"1", "2"}, D09) \/ two({"0"}, D19), 2)
                        \o opt(CharIn(t, p, D19), 1)
                        \o opt(two({" "}, D19), 2)
          [] g = "H" -> opt(two({"2"}, {"0", "1", "2", "3"}) \/ two({"0", "1"}, D09), 2)
                        \o opt(CharIn(t, p, D09), 1)
          [] g = "M" -> opt(two({"0", "1", "2", "3", "4", "5"}, D09), 2)
                        \o opt(CharIn(t, p, D09), 1)
          [] g = "S" -> opt(two({"6"}, {"0", "1"}) \/ two({"0", "1", "2", "3", "4", "5"}, D09), 2)
                        \o opt(CharIn(t, p, D09), 1)

\* the first match, in the pattern's backtracking order, of the directives gs at t[p]
RECURSIVE MatchDirectives(_, _, _)
RECURSIVE TryLens(_, _, _, _)
RECURSIVE TryLen(_, _, _, _, _)
MatchDirectives(t, p, gs) ==
    IF gs = <<>> THEN [ok |-> TRUE, vals |-> <<>>, end |-> p]
    ELSE TryLens(t, p, gs, DirectiveLens(Head(gs), t, p))
TryLens(t, p, gs, lens) ==
    IF lens = <<>> THEN [ok |-> FALSE, vals |-> <<>>, end |-> p]
    ELSE TryLen(t, p, gs, lens, MatchDirectives(t, p + Head(lens), Tail(gs)))
TryLen(t, p, gs, lens, r) ==
    IF r.ok
    THEN [ok |-> TRUE,
          vals |-> <<DecimalValue(SelectSeq(SubSeq(t, p, p + Head(lens) - 1), IsDigit))>>
                   \o r.vals,
          end |-> r.end]
    ELSE TryLens(t, p, gs, Tail(lens))

IsLeap(y) == y % 4 = 0 /\ (y % 100 # 0 \/ y % 400 = 0)
DaysInMonth(y, m) ==
    IF m = 2 THEN (IF IsLeap(y) THEN 29 ELSE 28)
    ELSE IF m \in {4, 6, 9, 11} THEN 30 ELSE 31

FormatDateTime == <<"Y", "m", "d", "H", "M", "S">>
FormatDate == <<"Y", "m", "d">>

\* datetime(year, month, day, hour, minute, second): None stands for the
\* ValueError of a field out of range
MakeDateTime(v) ==
    IF v[1] < 1 \/ v[3] > DaysInMonth(v[1], v[2]) \/ v[6] > 59 THEN None
    ELSE Some(SubSeq(v, 1, 6))
\* the match must consume the whole text ("unconverted data remains")
ConvertMatch(data, r) ==
    IF ~r.ok \/ r.end # Len(data) + 1 THEN None ELSE MakeDateTime(r.vals \o <<0, 0, 0>>)
\* datetime.strptime(data, fmt): None stands for the ValueError it raises
strptime(data, fmt) == ConvertMatch(data, MatchDirectives(data, 1, fmt))

\* time_on.ljust(6, '0')[:6]
NormalizeTime(time_on) == SubSeq(time_on \o <<"0", "0", "0", "0", "0", "0">>, 1, 6)

\* lines 142-155: the timestamp of a record, None when there is no date or it
\* does not parse
ParseTimestamp(qso_date, time_on) ==
    IF qso_date = <<>> THEN None
    ELSE IF time_on # <<>> THEN strptime(qso_date \o NormalizeTime(time_on), FormatDateTime)
    ELSE strptime(qso_date, FormatDate)

\* timestamp or datetime.now(): the clock reading is the value Now
Now == [kind |-> "now", at |-> <<>>]
TimestampOrNow(ts) == IF ts = None THEN Now ELSE [kind |-> "parsed", at |-> ts[1]]

\* ------------------------------------------------------------ record parser

\* what parse_adif_records has done: the records emitted, or the ValueError of
\* int() on the text `detail`
Emitted(qsos) == [raised |-> FALSE, qsos |-> qsos, detail |-> <<>>]
Raised(detail) == [raised |-> TRUE, qsos |-> <<>>, detail |-> detail]

\* lines 158-159: int(log_id_str) if log_id_str.isdigit() else None; int() raises
\* ValueError on a text str.isdigit holds of and that is no integer literal
LogIdRaises(log_id_str) == isdigit(log_id_str) /\ ~IntLiteralOk(log_id_str)
LogId(log_id_str) == IF isdigit(log_id_str) THEN Some(IntLiteralValue(log_id_str)) ELSE None

\* lines 157-169: what a record adds: nothing when it is dropped, the
\* QRZFetchedQSO when it is emitted; line 159 runs before the test of line 161
MakeQso(callsign, band, mode, timestamp, log_id_str, record) ==
    IF LogIdRaises(log_id_str) THEN Raised(log_id_str)
    ELSE IF callsign # <<>> /\ band # <<>> /\ mode # <<>>
    THEN Emitted(<<[callsign |-> callsign, band |-> band, mode |-> mode,
                    timestamp |-> TimestampOrNow(timestamp),
                    log_id |-> LogId(log_id_str),
                    raw_adif |-> strip(record)]>>)
    ELSE Emitted(<<>>)
\* lines 137-158: the key fields of a record
ExtractQso(record, fields) ==
    MakeQso(get(fields, T_CALL, <<>>), get(fields, T_BAND, <<>>), get(fields, T_MODE, <<>>),
            ParseTimestamp(get(fields, T_QSO_DATE, <<>>), get(fields, T_TIME_ON, <<>>)),
            get(fields, T_LOGID, <<>>), record)
\* lines 128-169: one record segment
ParseRecord(record) == ExtractQso(record, ScanFields(record, 1, EmptyDict))

\* lines 124-169: the records in order; a ValueError ends the loop
RECURSIVE ParseRecords(_)
RECURSIVE ParseAfter(_, _)
\* qsos.append, on the records that follow
PrependTo(qsos, r) == IF r.raised THEN r ELSE Emitted(qsos \o r.qsos)
ParseAfter(first, rest) ==
    IF first.raised THEN first ELSE PrependTo(first.qsos, ParseRecords(rest))
ParseRecords(records) ==
    IF records = <<>> THEN Emitted(<<>>)
    ELSE IF strip(Head(records)) = <<>> THEN ParseRecords(Tail(records))
    ELSE ParseAfter(ParseRecord(Head(records)), Tail(records))

parse_adif_records(adif) == ParseRecords(SplitEor(adif))

\* ------------------------------------------------------------ the service

\* records to a page: the source's PAGE_SIZE is 2000 (line 30), and the loop
\* compares the length of a page with it and nothing else; the model runs the
\* loop with pages this long
PAGE_SIZE == 2
\* log ids the service's records carry: 1..MaxLogId
MaxLogId == 3
\* pages an unconstrained service is followed for
MaxPages == 2

LogIds == 1..MaxLogId
\* a record of the service: k in LogIds carries APP_QRZLOG_LOGID k, 0 carries no
\* log id, -1 lacks MODE, -2 carries the log id U+00B2
RecordText(k) ==
    <<"<","C","A","L","L",":","2",">","K">> \o (IF k >= 0 THEN IntToStr(k) ELSE <<"X">>) \o <<"<","B","A","N","D",":","3",">","2","0","m">>
    \o (IF k # -1 THEN <<"<","M","O","D","E",":","2",">","C","W">> ELSE <<>>)
    \o (IF k >= 1 THEN <<"<","A","P","P","_","Q","R","Z","L","O","G","_","L","O","G","I","D",":">> \o IntToStr(Len(IntToStr(k))) \o <<">">> \o IntToStr(k)
        ELSE IF k = -2 THEN <<"<","A","P","P","_","Q","R","Z","L","O","G","_","L","O","G","I","D",":","1",">">> \o <<Superscript2>>
        ELSE <<>>)
    \o eor \o <<"\n">>
RECURSIVE PageText(_)
PageText(ks) == IF ks = <<>> THEN <<>> ELSE RecordText(Head(ks)) \o PageText(Tail(ks))

\* the service's escaping of the ADIF payload
RECURSIVE Escape(_)
Escape(s) ==
    LET j == NextIn(s, 1, {"<", ">", "&"})
    IN  IF j > Len(s) THEN s
        ELSE SubSeq(s, 1, j - 1)
             \o (CASE s[j] = "<" -> <<"&","l","t",";">>
                   [] s[j] = ">" -> <<"&","g","t",";">>
                   [] s[j] = "&" -> <<"&","a","m","p",";">>)
             \o Escape(SubSeq(s, j + 1, Len(s)))

\* key=value pairs joined by "&"; an absent field (None) is left out
WirePairs(pairs) ==
    LET fs == SelectSeq(pairs, LAMBDA kv : kv[2] # None)
        Join[i \in 0..Len(fs)] ==
            IF i = 0 THEN <<>>
            ELSE (IF i = 1 THEN <<>> ELSE Join[i - 1] \o <<"&">>)
                 \o fs[i][1] \o <<"=">> \o fs[i][2][1]
    IN  Join[Len(fs)]
\* the text of a FETCH response, ADIF last
Wire(d) ==
    WirePairs(<< <<K_RESULT, d.result>>, <<K_REASON, d.reason>>, <<K_COUNT, d.count>>,
                 <<K_ADIF, d.adif>> >>)

R_NoEntries == <<"N","o"," ","L","o","g"," ","E","n","t","r","i","e","s"," ","F","o","u","n","d">>
R_Other == <<"b","a","d"," ","k","e","y">>
HeaderResults == {None, Some(V_OK), Some(V_FAIL), Some(V_AUTH)}
HeaderReasons == {None, Some(R_NoEntries), Some(R_Other)}
HeaderCounts == {None, Some(<<"0">>), Some(<<"2">>), Some(<<"x">>)}

\* the page of n records whose first is of kind x and whose others are of kind y
PageOf(x, y, n) == [i \in 1..n |-> IF i = 1 THEN x ELSE y]
\* the pages over the record kinds ks: none to PAGE_SIZE + 1 records, over-full
\* pages included
PagesOver(ks) == {PageOf(x, y, n) : x \in ks, y \in ks, n \in 0..(PAGE_SIZE + 1)}
\* the record kinds of an unconstrained service: the lowest and the highest log
\* id, a record without log id, a record without MODE and a record whose log
\* id is U+00B2
AnyKinds == {-2, -1, 0, 1, MaxLogId}

PageResponse(ks) ==
    [result |-> Some(V_OK), reason |-> None, count |-> Some(IntToStr(Len(ks))),
     adif |-> Some(Escape(PageText(ks)))]

\* the one-record pages of `pages` whose record is the highest
SinglePages(pages) ==
    {q \in pages : Len(q) = 1 /\ \A r \in pages : Len(r) = 1 => r[1] <= q[1]}

\* what a service may answer when its pages are `pages`: any header without
\* payload, with an empty one or with a one-record payload, and every page as
\* RESULT=OK&COUNT=n&ADIF=...
ResponsesWith(pages) ==
    [result : HeaderResults, reason : HeaderReasons, count : HeaderCounts,
     adif : {None, Some(<<>>)} \cup {Some(Escape(PageText(p))) : p \in SinglePages(pages)}]
    \cup {PageResponse(p) : p \in pages}

\* the answers that tell the end of the logbook
EndAnswers ==
    {[result |-> Some(V_OK), reason |-> Some(R_NoEntries), count |-> Some(<<"0">>),
      adif |-> None],
     [result |-> Some(V_FAIL), reason |-> None, count |-> Some(<<"0">>), adif |-> None],
     [result |-> Some(V_OK), reason |-> None, count |-> Some(<<"0">>), adif |-> Some(<<>>)]}
\* answers that are failures: no session, a refusal, a COUNT that is no number
FailureAnswers ==
    {[result |-> Some(V_AUTH), reason |-> None, count |-> None, adif |-> None],
     [result |-> Some(V_FAIL), reason |-> Some(R_Other), count |-> Some(<<"2">>),
      adif |-> None],
     [result |-> Some(V_OK), reason |-> None, count |-> Some(<<"x">>), adif |-> None]}

\* the records with log id greater than a, lowest first, at most PAGE_SIZE
RECURSIVE LowestAbove(_, _, _)
LowestAbove(held, a, n) ==
    LET above == {k \in held : k > a}
    IN  IF n = 0 \/ above = {} THEN <<>>
        ELSE LET k == CHOOSE x \in above : \A y \in above : x <= y
             IN  <<k>> \o LowestAbove(held, k, n - 1)

\* the answers of the service svc to a FETCH with AFTERLOGID a:
\*   "strict": the PAGE_SIZE lowest records above a, or an end answer
\*   "geq":    a page of held records with log id >= a, in any order and number,
\*             an end answer or a failure
\*   "any":    any answer
ServiceResponses(svc, a) ==
    CASE svc.mode = "strict" ->
            LET p == LowestAbove(svc.held, a, PAGE_SIZE)
            IN  IF p # <<>> THEN {PageResponse(p)} ELSE EndAnswers
      [] svc.mode = "geq" ->
            {PageResponse(p) : p \in PagesOver({k \in svc.held : k >= a})}
            \cup EndAnswers \cup FailureAnswers
      [] svc.mode = "any" -> ResponsesWith(PagesOver(AnyKinds))

\* ------------------------------------------------------------ fetch_qsos

VARIABLES
    svc,           \* the service: how it answers (mode) and the log ids it holds
    pc,            \* "loop" (line 246), "await" (request sent, line 263), "received"
                   \* (line 267), "returned", "raised"; "status", "status_await",
                   \* "status_received" in validate_api_key
    after_log_id,  \* the pagination cursor
    page_num,
    all_qsos,      \* the accumulated records
    requests,      \* every request sent so far, in order
    response,      \* the text of the last response
    parsed,        \* the fields of the last response
    adif,          \* the decoded ADIF payload last handed to parse_adif_records
    page_qsos,     \* the records of the last page parsed
    max_log_id,    \* the highest log id of the last page parsed
    branch,        \* the branch of the loop body the last response took
    outcome        \* what the caller gets: a return value or an exception

vars == <<svc, pc, after_log_id, page_num, all_qsos, requests, response, parsed, adif,
          page_qsos, max_log_id, branch, outcome>>

NoOutcome == [kind |-> "none", exc |-> "", msg |-> "", detail |-> <<>>, value |-> <<>>]
\* return value
Return(value) == [kind |-> "return", exc |-> "", msg |-> "", detail |-> <<>>, value |-> value]
\* raise exc(msg + detail)
Raise(exc, msg, detail) ==
    [kind |-> "raise", exc |-> exc, msg |-> msg, detail |-> detail, value |-> <<>>]

\* lines 250-258: the FETCH request (fetch_qsos is called without `since`)
FetchRequest(cursor) == [ACTION |-> "FETCH", MAX |-> PAGE_SIZE, AFTERLOGID |-> cursor]

\* line 281
IsNoEntries(reason) == Contains(reason, no_entries_needle)
\* line 286
IsFailCountZero(result, response_count) == result = V_FAIL /\ response_count = 0
\* lines 309-315: the highest truthy log_id of the page, 0 when there is none
RECURSIVE ComputeMaxLogId(_, _)
ComputeMaxLogId(qsos, acc) ==
    IF qsos = <<>> THEN acc
    ELSE LET id == Head(qsos).log_id
         IN  ComputeMaxLogId(Tail(qsos),
                 IF id # None /\ id[1] # 0 /\ id[1] > acc THEN id[1] ELSE acc)
\* lines 309-315, as a bug would have it: the log id of the page's last record
PageMaxLogId_Last(qsos) ==
    IF qsos = <<>> \/ qsos[Len(qsos)].log_id = None THEN 0 ELSE qsos[Len(qsos)].log_id[1]
\* lines 309-315
PageMaxLogId(qsos) == ComputeMaxLogId(qsos, 0)
\* line 325, as a bug would have it: off by one
IsLastPage_OffByOne(qsos) == Len(qsos) < PAGE_SIZE - 1
\* line 325
IsLastPage(qsos) == Len(qsos) < PAGE_SIZE
\* line 329, as a bug would have it: the check left out
IsStall_Never(max_id) == FALSE
\* line 329
IsStall(max_id) == max_id = 0
\* line 334, as a bug would have it: the cursor is the highest id itself
NextCursor_NoStep(max_id) == max_id
\* line 334
NextCursor(max_id) == max_id + 1
\* line 341
ReturnValue(qsos) == Return(qsos)

\* the unconstrained service is followed for MaxPages pages; a service that
\* holds records 1..MaxLogId is followed to the end of its logbook
PageCap == IF svc.mode = "any" THEN MaxPages ELSE MaxLogId + 2
\* the last request is one the run has sent before
RequestRepeats == \E i \in 1..(Len(requests) - 1) : requests[i] = requests[Len(requests)]
\* a run is followed for PageCap pages and while its requests are new: the
\* service answers by the request alone, so a request sent a second time can be
\* answered as it was the first time, again and again; such a run is left
\* waiting, which is how a run that never ends shows
Followed == page_num <= PageCap /\ ~RequestRepeats

Init ==
    /\ svc \in [mode : {"strict", "geq", "any"}, held : SUBSET LogIds]
    /\ svc.mode = "any" => svc.held = {}
    /\ pc = "loop"
    /\ after_log_id = 0
    /\ page_num = 1
    /\ all_qsos = <<>>
    /\ requests = <<>>
    /\ response = <<>>
    /\ parsed = EmptyDict
    /\ adif = <<>>
    /\ page_qsos = <<>>
    /\ max_log_id = 0
    /\ branch = "none"
    /\ outcome = NoOutcome

\* lines 247-263: build the request and send it
SendFetch ==
    /\ pc = "loop"
    /\ requests' = Append(requests, FetchRequest(after_log_id))
    /\ pc' = "await"
    /\ UNCHANGED <<svc, after_log_id, page_num, all_qsos, response, parsed, adif, page_qsos,
                   max_log_id, branch, outcome>>

\* line 263, as a bug would have it: the request is sent again after a
\* transport failure
TransportFailure_Retry ==
    /\ pc = "await"
    /\ Followed
    /\ pc' = "loop"
    /\ branch' = "transport"
    /\ UNCHANGED <<svc, after_log_id, page_num, all_qsos, requests, response, parsed,
                   adif, page_qsos, max_log_id, outcome>>

\* line 263: make_request raises (urlopen fails or times out)
TransportFailure ==
    /\ pc = "await"
    /\ Followed
    /\ pc' = "raised"
    /\ branch' = "transport"
    /\ outcome' = Raise("URLError", "transport", <<>>)
    /\ UNCHANGED <<svc, after_log_id, page_num, all_qsos, requests, response, parsed,
                   adif, page_qsos, max_log_id>>

\* lines 263-267: the service answers and the response is decoded
FetchResponseArrives ==
    /\ pc = "await"
    /\ Followed
    /\ \E d \in ServiceResponses(svc, requests[Len(requests)].AFTERLOGID) : response' = Wire(d)
    /\ pc' = "received"
    /\ UNCHANGED <<svc, after_log_id, page_num, all_qsos, requests, parsed, adif, page_qsos,
                   max_log_id, branch, outcome>>

\* the locals and the outcome as one record: what a pass of the loop body
\* leaves behind
Locals ==
    [pc |-> pc, branch |-> branch, all_qsos |-> all_qsos, after_log_id |-> after_log_id,
     page_num |-> page_num, adif |-> adif, page_qsos |-> page_qsos,
     max_log_id |-> max_log_id, outcome |-> outcome]

\* the loop leaves through `break`: line 341 returns what was accumulated
Break(why, qsos) ==
    [Locals EXCEPT !.pc = "returned", !.branch = why, !.all_qsos = qsos,
                   !.outcome = ReturnValue(qsos)]

\* the loop body raises, as a bug would have it: the records accumulated are
\* returned instead
Fail_ReturnsPartial(why, exc, msg, detail) ==
    [Locals EXCEPT !.pc = "returned", !.branch = why, !.outcome = ReturnValue(all_qsos)]

\* the loop body raises
Fail(why, exc, msg, detail) ==
    [Locals EXCEPT !.pc = "raised", !.branch = why, !.outcome = Raise(exc, msg, detail)]

\* lines 322-339, as a bug would have it: the page is put in front of the
\* records accumulated
Paginate_Prepend(qsos, max_id) ==
    IF IsLastPage(qsos)
    THEN [Break("last_page", qsos \o all_qsos) EXCEPT !.page_qsos = qsos, !.max_log_id = max_id]
    ELSE IF IsStall(max_id)
    THEN [Break("cannot_paginate", qsos \o all_qsos) EXCEPT
              !.page_qsos = qsos, !.max_log_id = max_id]
    ELSE [Locals EXCEPT !.pc = "loop", !.branch = "next_page",
                        !.all_qsos = qsos \o all_qsos,
                        !.after_log_id = NextCursor(max_id),
                        !.page_num = page_num + 1,
                        !.page_qsos = qsos, !.max_log_id = max_id]
\* lines 322-339: append the page, then stop or move the cursor
Paginate(qsos, max_id) ==
    IF IsLastPage(qsos)
    THEN [Break("last_page", all_qsos \o qsos) EXCEPT !.page_qsos = qsos, !.max_log_id = max_id]
    ELSE IF IsStall(max_id)
    THEN [Break("cannot_paginate", all_qsos \o qsos) EXCEPT
              !.page_qsos = qsos, !.max_log_id = max_id]
    ELSE [Locals EXCEPT !.pc = "loop", !.branch = "next_page",
                        !.all_qsos = all_qsos \o qsos,
                        !.after_log_id = NextCursor(max_id),
                        !.page_num = page_num + 1,
                        !.page_qsos = qsos, !.max_log_id = max_id]
\* lines 308-315
ScanPage(qsos) == Paginate(qsos, PageMaxLogId(qsos))
\* line 301: parse_adif_records returns the page, or its ValueError leaves
\* fetch_qsos
HandlePage(r) ==
    IF r.raised THEN Fail("parse_error", "ValueError", "invalid literal for int()", r.detail)
    ELSE ScanPage(r.qsos)
\* lines 300-301, with the payload that was decoded
ParsePage(text) == [HandlePage(parse_adif_records(text)) EXCEPT !.adif = text]
\* lines 300-339
ProcessPage(encoded_adif) == ParsePage(decode_adif(encoded_adif))

\* lines 280-298: the stop conditions and the failures before the payload is read
Dispatch(fields, result, reason, response_count, encoded_adif) ==
    IF IsNoEntries(reason) THEN Break("no_entries", all_qsos)
    ELSE IF IsFailCountZero(result, response_count) THEN Break("fail_count0", all_qsos)
    ELSE IF result # V_OK
    THEN IF result = V_AUTH
         THEN Fail("auth", "Exception", "Session expired", <<>>)
         ELSE Fail("fetch_failed", "Exception", "Fetch failed: ", get(fields, K_REASON, result))
    ELSE IF encoded_adif = <<>> THEN Break("no_adif", all_qsos)
    ELSE ProcessPage(encoded_adif)

\* line 272: int(parsed.get("COUNT", "0")) raises ValueError on a non-numeric COUNT
ReadCount(fields, count_str) ==
    IF ~IntLiteralOk(count_str)
    THEN Fail("count_error", "ValueError", "invalid literal for int()", count_str)
    ELSE Dispatch(fields, get(fields, K_RESULT, <<>>), lower(get(fields, K_REASON, <<>>)),
                  IntLiteralValue(count_str), get(fields, K_ADIF, <<>>))

\* lines 270-339: the loop body behind parse_response
LoopBody(fields) == ReadCount(fields, get(fields, K_COUNT, <<"0">>))

\* the locals and the outcome take the values the loop body leaves behind
AssignLocals(r) ==
    /\ pc' = r.pc
    /\ branch' = r.branch
    /\ all_qsos' = r.all_qsos
    /\ after_log_id' = r.after_log_id
    /\ page_num' = r.page_num
    /\ adif' = r.adif
    /\ page_qsos' = r.page_qsos
    /\ max_log_id' = r.max_log_id
    /\ outcome' = r.outcome

\* line 269, then lines 270-339
RunLoopBody(fields) ==
    /\ parsed' = fields
    /\ AssignLocals(LoopBody(fields))

\* lines 269-339: the rest of the loop body runs on the response
ProcessFetchResponse ==
    /\ pc = "received"
    /\ RunLoopBody(parse_response(response))
    /\ UNCHANGED <<svc, requests, response>>

Next == SendFetch \/ TransportFailure \/ ProcessFetchResponse \/ FetchResponseArrives

Spec == Init /\ [][Next]_vars

\* the runs against a service whose pages hold only held records with log id at
\* least the request's AFTERLOGID
InitLive == Init /\ svc.mode = "geq"

\* ProcessFetchResponse is enabled exactly when a response has been received
ProcessEnabled == pc = "received"

\* weak fairness of ProcessFetchResponse, with its enabling condition written out
ProcessFairness == []<>(~ProcessEnabled) \/ []<><<ProcessFetchResponse>>_vars

\* the scheduling of the loop: the loop runs on (SendFetch), a request does not
\* wait forever (urlopen is given a timeout, line 182: without an answer it
\* raises), and the loop body runs to its end on a response
SpecLive ==
    /\ InitLive /\ [][Next]_vars
    /\ WF_vars(SendFetch) /\ WF_vars(TransportFailure) /\ ProcessFairness

\* ------------------------------------------------------------ validate_api_key

\* lines 203-206
StatusRequest == [ACTION |-> "STATUS"]

StatusCallsigns == {None, Some(<<>>), Some(<<"K","1","A","B","C">>)}
StatusBookIds == {None, Some(<<"7">>)}
StatusCounts == {None, Some(<<"5">>), Some(<<"x">>), Some(<<>>)}
StatusConfirmed == {None, Some(<<"3">>), Some(<<"x">>)}
\* the answers of the service to a STATUS request
StatusResponses ==
    [result : HeaderResults, reason : {None, Some(R_Other)}, callsign : StatusCallsigns,
     bookid : StatusBookIds, count : StatusCounts, confirmed : StatusConfirmed]
WireStatus(d) ==
    WirePairs(<< <<K_RESULT, d.result>>, <<K_REASON, d.reason>>, <<K_CALLSIGN, d.callsign>>,
                 <<K_BOOKID, d.bookid>>, <<K_COUNT, d.count>>, <<K_CONFIRMED, d.confirmed>> >>)

InitStatus ==
    /\ svc = [mode |-> "any", held |-> {}]
    /\ pc = "status"
    /\ after_log_id = 0
    /\ page_num = 1
    /\ all_qsos = <<>>
    /\ requests = <<>>
    /\ response = <<>>
    /\ parsed = EmptyDict
    /\ adif = <<>>
    /\ page_qsos = <<>>
    /\ max_log_id = 0
    /\ branch = "none"
    /\ outcome = NoOutcome

StatusUnchanged ==
    UNCHANGED <<svc, after_log_id, page_num, all_qsos, adif, page_qsos, max_log_id>>

\* lines 203-208
SendStatus ==
    /\ pc = "status"
    /\ requests' = Append(requests, StatusRequest)
    /\ pc' = "status_await"
    /\ UNCHANGED <<response, parsed, branch, outcome>>
    /\ StatusUnchanged

\* line 208: make_request raises
StatusTransportFailure ==
    /\ pc = "status_await"
    /\ pc' = "raised"
    /\ branch' = "transport"
    /\ outcome' = Raise("URLError", "transport", <<>>)
    /\ UNCHANGED <<requests, response, parsed>>
    /\ StatusUnchanged

\* lines 208-210: the service answers and the response is decoded
StatusResponseArrives ==
    /\ pc = "status_await"
    /\ \E d \in StatusResponses : response' = WireStatus(d)
    /\ pc' = "status_received"
    /\ UNCHANGED <<requests, parsed, branch, outcome>>
    /\ StatusUnchanged

StatusFail(why, exc, msg, detail) ==
    [pc |-> "raised", branch |-> why, outcome |-> Raise(exc, msg, detail)]

\* line 230, line 231: parsed.get(key, "0"), the argument of int()
StatusNumber(fields, key) == get(fields, key, <<"0">>)

\* lines 227-232: the QRZStatusResponse; int() of COUNT is evaluated before
\* int() of CONFIRMED, and either raises ValueError on a non-numeric value
BuildStatus(fields, callsign, count_str, confirmed_str) ==
    IF ~IntLiteralOk(count_str)
    THEN StatusFail("count_error", "ValueError", "invalid literal for int()", count_str)
    ELSE IF ~IntLiteralOk(confirmed_str)
    THEN StatusFail("confirmed_error", "ValueError", "invalid literal for int()", confirmed_str)
    ELSE [pc |-> "returned", branch |-> "status_ok",
          outcome |-> Return([callsign |-> callsign,
                              book_id |-> IF K_BOOKID \in DOMAIN fields
                                          THEN Some(fields[K_BOOKID]) ELSE None,
                              qso_count |-> IntLiteralValue(count_str),
                              confirmed_count |-> IntLiteralValue(confirmed_str)])]

\* lines 216-232, as a bug would have it: AUTH is reported like any other
\* RESULT
CheckStatus_AuthAsReason(fields, result, callsign) ==
    IF result # V_OK
    THEN StatusFail("validation_failed", "Exception", "API validation failed: ",
                    get(fields, K_REASON, <<"U","n","k","n","o","w","n"," ","e","r","r","o","r",","," ","R","E","S","U","L","T","=">> \o result))
    ELSE IF callsign = <<>>
    THEN StatusFail("no_callsign", "Exception", "No callsign in response", <<>>)
    ELSE BuildStatus(fields, callsign, StatusNumber(fields, K_COUNT),
                     StatusNumber(fields, K_CONFIRMED))
\* lines 216-232
CheckStatus(fields, result, callsign) ==
    IF result # V_OK
    THEN IF result = V_AUTH
         THEN StatusFail("auth", "Exception", "QRZ XML Logbook Data subscription required", <<>>)
         ELSE StatusFail("validation_failed", "Exception", "API validation failed: ",
                         get(fields, K_REASON, <<"U","n","k","n","o","w","n"," ","e","r","r","o","r",","," ","R","E","S","U","L","T","=">> \o result))
    ELSE IF callsign = <<>>
    THEN StatusFail("no_callsign", "Exception", "No callsign in response", <<>>)
    ELSE BuildStatus(fields, callsign, StatusNumber(fields, K_COUNT),
                     StatusNumber(fields, K_CONFIRMED))

\* lines 216-232 behind parse_response
StatusBody(fields) ==
    CheckStatus(fields, get(fields, K_RESULT, <<>>), get(fields, K_CALLSIGN, <<>>))

\* the outcome of validate_api_key
AssignStatus(r) ==
    /\ pc' = r.pc
    /\ branch' = r.branch
    /\ outcome' = r.outcome

\* line 213, then lines 216-232
RunStatusBody(fields) ==
    /\ parsed' = fields
    /\ AssignStatus(StatusBody(fields))

\* lines 213-232: the rest of validate_api_key runs on the response
ProcessStatusResponse ==
    /\ pc = "status_received"
    /\ RunStatusBody(parse_response(response))
    /\ UNCHANGED <<requests, response>>
    /\ StatusUnchanged

NextStatus ==
    SendStatus \/ StatusTransportFailure \/ ProcessStatusResponse \/ StatusResponseArrives

SpecStatus == InitStatus /\ [][NextStatus]_vars

\* ------------------------------------------------------------ either operation

\* a run of fetch_qsos or a run of validate_api_key
SpecRuns == (Init \/ InitStatus) /\ [][Next \/ NextStatus]_vars

\* ------------------------------------------------------------ parse_response alone

\* the variables a call of one function alone leaves at rest
AtRest ==
    /\ svc = [mode |-> "any", held |-> {}]
    /\ after_log_id = 0
    /\ page_num = 1
    /\ all_qsos = <<>>
    /\ requests = <<>>
    /\ max_log_id = 0
    /\ branch = "none"

MaxTokens == 3
\* the pieces the response texts are put together from: fields before the
\* marker (one of them with a key that ends in ADIF), the marker, a payload
ResponseTokens ==
    {<<"R","E","S","U","L","T","=","O","K","&">>, <<"X","A","D","I","F","=","1","&">>, <<"A","D","I","F","=">>, <<"a","&","b","=","c">>, <<"C","O","U","N","T","=","1","&">>}
\* the texts of at most n pieces
RECURSIVE TokenTexts(_)
TokenTexts(n) ==
    IF n = 0 THEN {<<>>}
    ELSE LET shorter == TokenTexts(n - 1)
         IN  shorter \cup {t \o s : t \in ResponseTokens, s \in shorter}

InitParse ==
    /\ AtRest
    /\ pc = "parse"
    /\ response \in TokenTexts(MaxTokens)
    /\ parsed = EmptyDict
    /\ adif = <<>>
    /\ page_qsos = <<>>
    /\ outcome = NoOutcome

\* parsed = parse_response(response), lines 213 and 269
CallParseResponse ==
    /\ pc = "parse"
    /\ parsed' = parse_response(response)
    /\ pc' = "parsed"
    /\ UNCHANGED <<svc, after_log_id, page_num, all_qsos, requests, response, adif,
                   page_qsos, max_log_id, branch, outcome>>

SpecParse == InitParse /\ [][CallParseResponse]_vars

\* ------------------------------------------------------------ parse_adif_records alone

MaxRecords == 2
\* the CALL, BAND and MODE fields of a record: all three, CALL absent, BAND
\* empty, MODE absent, a "<" inside a value, a value that goes on behind its
\* length (with a type code and a lower-case tag name)
KeyParts ==
    {<<"<","C","A","L","L",":","5",">","K","1","A","B","C","<","B","A","N","D",":","3",">","2","0","m","<","M","O","D","E",":","2",">","C","W">>,
     <<"<","B","A","N","D",":","3",">","2","0","m","<","M","O","D","E",":","2",">","C","W">>,
     <<"<","C","A","L","L",":","5",">","K","1","A","B","C","<","B","A","N","D",":","0",">","<","M","O","D","E",":","2",">","C","W">>,
     <<"<","C","A","L","L",":","5",">","K","1","A","B","C","<","B","A","N","D",":","3",">","2","0","m">>,
     <<"<","C","A","L","L",":","3",">","A","<","B","<","B","A","N","D",":","3",">","2","0","m","<","M","O","D","E",":","2",">","C","W">>,
     <<"<","C","A","L","L",":","3",">","K","1","A","B","C","<","B","A","N","D",":","3",":","S",">","2","0","m","<","m","o","d","e",":","2",">","C","W">>}
\* the date and time fields of a record
TimeParts ==
    {<<>>,
     <<"<","Q","S","O","_","D","A","T","E",":","8",">","2","0","2","3","0","6","1","5">>,
     <<"<","Q","S","O","_","D","A","T","E",":","8",">","2","0","2","3","0","6","1","5","<","T","I","M","E","_","O","N",":","3",">","9","3","0">>,
     <<"<","Q","S","O","_","D","A","T","E",":","8",">","2","0","2","3","0","6","1","5","<","T","I","M","E","_","O","N",":","4",">","0","9","3","0">>,
     <<"<","Q","S","O","_","D","A","T","E",":","8",">","2","0","2","3","0","6","1","5","<","T","I","M","E","_","O","N",":","2",">","0","9">>,
     <<"<","Q","S","O","_","D","A","T","E",":","8",">","2","0","2","3","0","6","1","5","<","T","I","M","E","_","O","N",":","6",">","0","9","3","0","0","0">>}
\* the APP_QRZLOG_LOGID field of a record
LogIdParts ==
    {<<"<","A","P","P","_","Q","R","Z","L","O","G","_","L","O","G","I","D",":","5",">","0","0","4","8","2">>,
     <<"<","A","P","P","_","Q","R","Z","L","O","G","_","L","O","G","I","D",":","3",">","N","/","A">>,
     <<"<","A","P","P","_","Q","R","Z","L","O","G","_","L","O","G","I","D",":","0",">">>,
     <<"<","A","P","P","_","Q","R","Z","L","O","G","_","L","O","G","I","D",":","3",">","1","2","a">>,
     <<"<","A","P","P","_","Q","R","Z","L","O","G","_","L","O","G","I","D",":","1",">">> \o <<Superscript2>>}
\* the record segments: key fields, then date and time or a log id
RecordTexts ==
    {k \o r \o <<"<","E","O","R",">">> \o <<"\n">> : k \in KeyParts, r \in TimeParts \cup LogIdParts}
\* the payloads of at most n records
RECURSIVE Payloads(_)
Payloads(n) ==
    IF n = 0 THEN {<<>>}
    ELSE LET shorter == Payloads(n - 1)
         IN  shorter \cup {r \o p : r \in RecordTexts, p \in shorter}

InitAdif ==
    /\ AtRest
    /\ pc = "parse_adif"
    /\ adif \in Payloads(MaxRecords)
    /\ response = <<>>
    /\ parsed = EmptyDict
    /\ page_qsos = <<>>
    /\ outcome = NoOutcome

\* page_qsos = parse_adif_records(adif), line 301: the list it returns or the
\* ValueError of line 159
ReturnQsos(r) ==
    /\ page_qsos' = r.qsos
    /\ pc' = IF r.raised THEN "raised" ELSE "returned"
    /\ outcome' = IF r.raised THEN Raise("ValueError", "invalid literal for int()", r.detail)
                  ELSE Return(r.qsos)
CallParseAdifRecords ==
    /\ pc = "parse_adif"
    /\ ReturnQsos(parse_adif_records(adif))
    /\ UNCHANGED <<svc, after_log_id, page_num, all_qsos, requests, response, parsed,
                   adif, max_log_id, branch>>

SpecAdif == InitAdif /\ [][CallParseAdifRecords]_vars

\* ------------------------------------------------------------ properties

Terminated == pc \in {"returned", "raised"}
\* the branches that parse the payload of the response
PageBranches == {"last_page", "cannot_paginate", "next_page"}
\* this step is a response whose payload was parsed into page_qsos'
PageParsed == pc = "received" /\ branch' \in PageBranches
\* the log ids of the records of a sequence, in order (None for a record without)
IdsOf(qsos) == [i \in 1..Len(qsos) |-> qsos[i].log_id]
PositiveIds(qsos) ==
    {qsos[i].log_id[1] : i \in {j \in 1..Len(qsos) : qsos[j].log_id # None /\ qsos[j].log_id[1] > 0}}
SetMax(S) == CHOOSE m \in S : \A x \in S : x <= m
\* once fetch_qsos has returned or raised, nothing more is sent
NoRequestAfterEnd == Terminated => (requests' = requests /\ pc' = pc)
ReasonSaysNoEntries(fields) == Contains(lower(get(fields, K_REASON, <<>>)), no_entries_needle)

\* C1: against a service that answers a FETCH with the PAGE_SIZE lowest records
\* whose log id is strictly greater than AFTERLOGID, fetch_qsos returns every
\* record the service holds exactly once.
C1_FetchAllComplete ==
    (svc.mode = "strict" /\ pc = "returned") =>
        /\ Len(outcome.value) = Cardinality(svc.held)
        /\ \A k \in svc.held : \E i \in 1..Len(outcome.value) : outcome.value[i].log_id = Some(k)

\* C2: the AFTERLOGID of the first request is 0 and, whatever the service
\* answers, the AFTERLOGID of a request is never below that of an earlier one.
C2_CursorNeverDecreases ==
    /\ requests # <<>> => requests[1].AFTERLOGID = 0
    /\ \A i, j \in 1..Len(requests) : i < j => requests[i].AFTERLOGID <= requests[j].AFTERLOGID

\* C3: a page of exactly PAGE_SIZE records of which one at least has a positive
\* log id moves the cursor to the largest log id of the page plus one, whatever
\* the order of the records and however often an id occurs, and the step that
\* follows sends a FETCH with that AFTERLOGID.
C3_CursorAdvance ==
    [][ /\ (PageParsed /\ Len(page_qsos') = PAGE_SIZE /\ PositiveIds(page_qsos') # {}) =>
              (pc' = "loop" /\ after_log_id' = SetMax(PositiveIds(page_qsos')) + 1)
        /\ pc = "loop" =>
              (pc' = "await"
               /\ requests' = Append(requests, [ACTION |-> "FETCH", MAX |-> PAGE_SIZE,
                                                AFTERLOGID |-> after_log_id]))
      ]_vars
\* the page <<MaxLogId, 1>> (highest id first) was followed by the request
C3_Witness ==
    /\ pc = "await" /\ branch = "next_page"
    /\ IdsOf(page_qsos) = <<Some(MaxLogId), Some(1)>>
    /\ requests[Len(requests)].AFTERLOGID = MaxLogId + 1

\* C4: a page of fewer than PAGE_SIZE records (none included) is appended and
\* fetch_qsos returns, whatever the highest log id of the page; no request follows.
C4_ShortPageStops ==
    [][ /\ (PageParsed /\ Len(page_qsos') < PAGE_SIZE) =>
              /\ pc' = "returned"
              /\ requests' = requests
              /\ all_qsos' = all_qsos \o page_qsos'
              /\ outcome' = Return(all_qsos')
        /\ NoRequestAfterEnd
      ]_vars
\* a second page of one record with a positive log id ended the run
C4_Witness ==
    /\ pc = "returned" /\ branch = "last_page"
    /\ Len(requests) = 2
    /\ Len(page_qsos) = 1 /\ PositiveIds(page_qsos) # {}
    /\ Len(outcome.value) = PAGE_SIZE + 1

\* C5: a page of at least PAGE_SIZE records none of which has a log id ends the
\* run: no request follows, and the result keeps the records of that page and
\* of the pages before it.
C5_StallStops ==
    [][ /\ (/\ PageParsed
            /\ Len(page_qsos') >= PAGE_SIZE
            /\ \A i \in 1..Len(page_qsos') : page_qsos'[i].log_id = None) =>
              /\ pc' = "returned"
              /\ requests' = requests
              /\ outcome'.kind = "return"
              /\ outcome'.value = all_qsos \o page_qsos'
        /\ NoRequestAfterEnd
      ]_vars
\* the second page, of PAGE_SIZE + 1 records without log id, stalled the run
C5_Witness ==
    /\ pc = "returned" /\ branch = "cannot_paginate"
    /\ Len(requests) = 2
    /\ Len(page_qsos) = PAGE_SIZE + 1
    /\ \A i \in 1..Len(page_qsos) : page_qsos[i].log_id = None
    /\ Len(outcome.value) = 2 * PAGE_SIZE + 1

\* C6: what the caller gets after a stall (a full page without log ids) differs
\* from what it gets from a run that accumulated the same records and ended
\* with a short page, which is line 341's return of the accumulated records.
C6_StallDistinguishable ==
    (pc = "returned" /\ branch = "cannot_paginate") => outcome # ReturnValue(all_qsos)

\* C7: when every page holds only records the service holds, with log id at
\* least the request's AFTERLOGID, fetch_qsos returns or raises in the end.
C7_Terminates == (svc.mode = "geq") ~> Terminated
\* a run of three requests against such a service has returned
C7_Witness == svc.mode = "geq" /\ pc = "returned" /\ Len(requests) >= 3

\* C8: a response whose RESULT is not OK, whose REASON does not say "no log
\* entries found" and which is not RESULT=FAIL with a COUNT field equal to 0
\* makes fetch_qsos raise: "Session expired" for AUTH, else an error carrying
\* the REASON of the service.
C8_FetchHardFailure ==
    LET result == get(parsed, K_RESULT, <<>>)
        countIsZero == /\ K_COUNT \in DOMAIN parsed
                       /\ IntLiteralOk(parsed[K_COUNT])
                       /\ IntLiteralValue(parsed[K_COUNT]) = 0
    IN  (/\ branch \notin {"none", "transport"}
         /\ result # V_OK
         /\ ~ReasonSaysNoEntries(parsed)
         /\ ~(result = V_FAIL /\ countIsZero)) =>
            /\ pc = "raised"
            /\ outcome.kind = "raise"
            /\ result = V_AUTH => outcome.msg = "Session expired"
            /\ (result # V_AUTH /\ K_REASON \in DOMAIN parsed) => outcome.detail = parsed[K_REASON]

\* C9: a response whose REASON, case-folded, contains "no log entries found"
\* ends the run normally whatever its RESULT, COUNT and ADIF: fetch_qsos
\* returns the records of the earlier pages, nothing added, and sends no
\* further request.
C9_TerminationA ==
    [][ /\ (pc = "received" /\ ReasonSaysNoEntries(parsed')) =>
              /\ pc' = "returned"
              /\ requests' = requests
              /\ all_qsos' = all_qsos
              /\ outcome' = Return(all_qsos)
        /\ NoRequestAfterEnd
      ]_vars

\* C10: a status response with RESULT=OK and a non-empty CALLSIGN makes
\* validate_api_key return, with qso_count (confirmed_count) 0 when COUNT
\* (CONFIRMED) is absent or not a numeric string.
C10_StatusNumericDefaults ==
    LET numeric(k) == k \in DOMAIN parsed /\ IntLiteralOk(parsed[k])
    IN  (/\ pc \in {"returned", "raised"}
         /\ branch # "transport"
         /\ get(parsed, K_RESULT, <<>>) = V_OK
         /\ get(parsed, K_CALLSIGN, <<>>) # <<>>) =>
            /\ outcome.kind = "return"
            /\ ~numeric(K_COUNT) => outcome.value.qso_count = 0
            /\ ~numeric(K_CONFIRMED) => outcome.value.confirmed_count = 0

\* the subscription-required error, the error of any other RESULT, the
\* missing-identity error (lines 219, 221, 225)
SubscriptionRequired == Raise("Exception", "QRZ XML Logbook Data subscription required", <<>>)
ValidationFailed(reason) == Raise("Exception", "API validation failed: ", reason)
NoCallsign == Raise("Exception", "No callsign in response", <<>>)

\* C11: validate_api_key sends one request; RESULT=AUTH fails with the
\* subscription-required error whatever the other fields, any other RESULT but
\* OK fails with the REASON of the service (a message naming the RESULT when
\* there is none), RESULT=OK without CALLSIGN fails with the missing-identity
\* error, and the three errors differ.
C11_StatusFailureMapping ==
    LET result == get(parsed, K_RESULT, <<>>)
    IN  /\ Len(requests) <= 1
        /\ (pc \in {"returned", "raised"} /\ branch # "transport") =>
              /\ Len(requests) = 1
              /\ result = V_AUTH => outcome = SubscriptionRequired
              /\ result \notin {V_AUTH, V_OK} =>
                    /\ outcome = ValidationFailed(
                           get(parsed, K_REASON, <<"U","n","k","n","o","w","n"," ","e","r","r","o","r",","," ","R","E","S","U","L","T","=">> \o result))
                    /\ outcome # SubscriptionRequired
              /\ (result = V_OK /\ get(parsed, K_CALLSIGN, <<>>) = <<>>) =>
                    /\ outcome = NoCallsign
                    /\ outcome # SubscriptionRequired
\* RESULT=AUTH came with a REASON and a CALLSIGN, and the error is the
\* subscription-required one
C11_Witness ==
    /\ pc = "raised" /\ branch = "auth"
    /\ K_REASON \in DOMAIN parsed /\ K_CALLSIGN \in DOMAIN parsed
    /\ outcome = SubscriptionRequired

\* a key=value field: a key that is not empty, not ADIF and holds no "&" and
\* no "=", a value that holds no "&" and no "="
IsField(f) ==
    LET eq == find(f, <<"=">>)
    IN  /\ eq > 1
        /\ SubSeq(f, 1, eq - 1) # K_ADIF
        /\ ~Contains(SubSeq(f, eq + 1, Len(f)), <<"=">>)
\* a sequence of key=value fields, each followed by "&"
IsFieldPrefix(p) ==
    \/ p = <<>>
    \/ /\ p[Len(p)] = "&"
       /\ LET fields == split(SubSeq(p, 1, Len(p) - 1), "&")
          IN  \A i \in 1..Len(fields) : IsField(fields[i])
\* a mapping without its ADIF entry
OtherKeys(d) == [k \in (DOMAIN d) \ {K_ADIF} |-> d[k]]

\* C12: for a response P + "ADIF=" + S, P a sequence of key=value fields each
\* followed by "&", parse_response maps ADIF to exactly S and gives the other
\* keys what parse_response(P) gives them.
C12_FieldSplit ==
    pc = "parsed" =>
        \A i \in 1..Len(response) :
            (StartsWithAt(response, i, adif_marker)
             /\ IsFieldPrefix(SubSeq(response, 1, i - 1))) =>
                /\ K_ADIF \in DOMAIN parsed
                /\ parsed[K_ADIF] = SubSeq(response, i + Len(adif_marker), Len(response))
                /\ OtherKeys(parsed) = OtherKeys(parse_response(SubSeq(response, 1, i - 1)))

\* the value the tag token <NAME:LEN> or <NAME:LEN:T> of a record announces: the
\* LEN characters behind its closing bracket (LEN of one digit, T of one
\* character); None when the record has no token of that name
TagValue(record, name) ==
    LET open == find(upper(record), <<"<">> \o name \o <<":">>)
        digit == open + Len(name) + 2
        close == IF record[digit + 1] = ">" THEN digit + 1 ELSE digit + 3
    IN  IF open = 0 THEN None
        ELSE Some(SubSeq(record, close + 1, close + DigitVal(record[digit])))
\* CALL, BAND and MODE are there and not empty
HasKeys(record) ==
    \A name \in {T_CALL, T_BAND, T_MODE} : TagValue(record, name) \notin {None, Some(<<>>)}
\* the record segments of a payload that are not blank
Segments(payload) == SelectSeq(SplitEor(payload), LAMBDA s : strip(s) # <<>>)

\* C13: every record parse_adif_records emits has a non-empty callsign, band
\* and mode; a segment of the payload in which CALL, BAND or MODE is missing
\* or empty is dropped, whatever other fields it carries, without an error:
\* when no segment that has the three raises one, parse_adif_records returns,
\* in their order, the segments that have a non-empty CALL, BAND and MODE.
C13_RecordDiscard ==
    pc \in {"returned", "raised"} =>
        LET kept == SelectSeq(Segments(adif), HasKeys)
        IN  /\ \A i \in 1..Len(page_qsos) :
                   /\ page_qsos[i].callsign # <<>>
                   /\ page_qsos[i].band # <<>>
                   /\ page_qsos[i].mode # <<>>
            /\ (\A i \in 1..Len(kept) : ~Contains(kept[i], <<Superscript2>>)) =>
                   /\ pc = "returned"
                   /\ Len(page_qsos) = Len(kept)
                   /\ \A i \in 1..Len(kept) : page_qsos[i].raw_adif = strip(kept[i])

\* the timestamp of a date and a time of day
At(date, clock) == [kind |-> "parsed", at |-> date \o clock]
\* the time of day a text of digits padded with zeros on the right to HHMMSS gives
ClockOf(time_on) ==
    LET hhmmss == SubSeq(time_on \o <<"0","0","0","0","0","0">>, 1, 6)
    IN  <<DecimalValue(SubSeq(hhmmss, 1, 2)), DecimalValue(SubSeq(hhmmss, 3, 4)),
          DecimalValue(SubSeq(hhmmss, 5, 6))>>

\* C14: a record with QSO_DATE=20230615 and TIME_ON=930 is emitted with the
\* timestamp 2023-06-15 09:30:00; with another TIME_ON of at most 6 digits, with
\* that date and the time of day the TIME_ON padded with zeros on the right
\* reads; without TIME_ON, with that date at midnight.
C14_TimestampDerivation ==
    \A i \in 1..Len(page_qsos) :
        LET record == page_qsos[i].raw_adif
            time_on == TagValue(record, T_TIME_ON)
        IN  TagValue(record, T_QSO_DATE) = Some(<<"2","0","2","3","0","6","1","5">>) =>
                page_qsos[i].timestamp =
                    At(<<2023, 6, 15>>,
                       IF time_on = None THEN <<0, 0, 0>>
                       ELSE IF time_on = Some(<<"9","3","0">>) THEN <<9, 30, 0>>
                       ELSE ClockOf(time_on[1]))

\* the text of the APP_QRZLOG_LOGID field of a record, empty when it has none
LogIdText(record) ==
    IF TagValue(record, T_LOGID) = None THEN <<>> ELSE TagValue(record, T_LOGID)[1]
\* not empty, and digits 0..9 only
AllDigits(s) == s # <<>> /\ \A k \in 1..Len(s) : IsDigit(s[k])

\* C15: a record with CALL, BAND and MODE is emitted whatever its
\* APP_QRZLOG_LOGID, and no error is raised (when no dropped segment raises
\* one); its log id is the integer the field reads when the field is not empty
\* and all digits (leading zeros allowed), and no log id otherwise.
C15_LogIdExtraction ==
    pc \in {"returned", "raised"} =>
        LET segments == Segments(adif)
            kept == SelectSeq(segments, HasKeys)
        IN  (\A i \in 1..Len(segments) :
                 HasKeys(segments[i]) \/ ~Contains(segments[i], <<Superscript2>>)) =>
                /\ pc = "returned"
                /\ Len(page_qsos) = Len(kept)
                /\ \A i \in 1..Len(kept) :
                       page_qsos[i].log_id =
                           IF AllDigits(LogIdText(kept[i]))
                           THEN Some(DecimalValue(LogIdText(kept[i]))) ELSE None

\* C16: a first page of PAGE_SIZE records with highest log id m > 0 makes
\* fetch_qsos go on from cursor m + 1 with that page's records; when the second
\* page has fewer than PAGE_SIZE records, fetch_qsos returns page 1's records
\* followed by page 2's, after exactly the two requests AFTERLOGID 0 and m + 1;
\* no request follows.
C16_TwoPageAggregation ==
    [][ /\ (/\ PageParsed /\ page_num = 1
            /\ Len(page_qsos') = PAGE_SIZE /\ PositiveIds(page_qsos') # {}) =>
              /\ requests' = <<FetchRequest(0)>>
              /\ pc' = "loop" /\ page_num' = 2
              /\ all_qsos' = page_qsos'
              /\ after_log_id' = SetMax(PositiveIds(page_qsos')) + 1
        /\ (/\ PageParsed /\ page_num = 2
            /\ Len(all_qsos) = PAGE_SIZE /\ PositiveIds(all_qsos) # {}
            /\ Len(page_qsos') < PAGE_SIZE) =>
              /\ requests' = <<FetchRequest(0),
                               FetchRequest(SetMax(PositiveIds(all_qsos)) + 1)>>
              /\ pc' = "returned"
              /\ outcome' = Return(all_qsos \o page_qsos')
              /\ Len(outcome'.value) = PAGE_SIZE + Len(page_qsos')
        /\ NoRequestAfterEnd
      ]_vars
\* the pages <<2, 1>> and <<3>> were aggregated after the requests 0 and 3
C16_Witness ==
    /\ pc = "returned" /\ branch = "last_page"
    /\ requests = <<FetchRequest(0), FetchRequest(3)>>
    /\ IdsOf(outcome.value) = <<Some(2), Some(1), Some(3)>>

\* the response is a failure of the service: a RESULT that is not OK, but for
\* the two normal ends of a fetch (REASON says no entries; FAIL with COUNT 0)
HardFailure(fields) ==
    /\ get(fields, K_RESULT, <<>>) # V_OK
    /\ ~ReasonSaysNoEntries(fields)
    /\ ~(/\ get(fields, K_RESULT, <<>>) = V_FAIL
         /\ IntLiteralOk(get(fields, K_COUNT, <<"0">>))
         /\ IntLiteralValue(get(fields, K_COUNT, <<"0">>)) = 0)

C18_ExactLengthValues ==
    \A i \in 1..Len(page_qsos) :
        LET record == page_qsos[i].raw_adif
        IN  /\ TagValue(record, T_CALL) = Some(page_qsos[i].callsign)
            /\ TagValue(record, T_BAND) = Some(page_qsos[i].band)
            /\ TagValue(record, T_MODE) = Some(page_qsos[i].mode)

\* C19: a response with RESULT=OK, a REASON that does not say no entries, and
\* an ADIF field that is absent or empty ends the run without an error:
\* fetch_qsos returns the records of the earlier pages, the cursor stays, and
\* no request follows.
C19_EmptyPayload ==
    [][ /\ (/\ pc = "received"
            /\ get(parsed', K_RESULT, <<>>) = V_OK
            /\ ~ReasonSaysNoEntries(parsed')
            /\ get(parsed', K_ADIF, <<>>) = <<>>) =>
              /\ pc' = "returned"
              /\ outcome' = Return(all_qsos)
              /\ all_qsos' = all_qsos
              /\ after_log_id' = after_log_id
              /\ requests' = requests
        /\ NoRequestAfterEnd
      ]_vars

\* the ends of the loop that return: short page, stall, the two normal ends,
\* the empty payload
StopBranches == {"last_page", "cannot_paginate", "no_entries", "fail_count0", "no_adif"}

\* C20: a run that ends with an error hands the caller the error and none of
\* the records accumulated; a run returns only through a stop condition, and
\* then returns the records accumulated, which are the pages parsed so far, one
\* behind the other in the order of the requests, and nothing else.
C20_AllOrNothing ==
    [][ /\ pc' = "raised" => (outcome'.kind = "raise" /\ outcome'.value = <<>>)
        /\ pc' = "returned" => (branch' \in StopBranches /\ outcome' = Return(all_qsos'))
        /\ all_qsos' = IF PageParsed THEN all_qsos \o page_qsos' ELSE all_qsos
        /\ requests = <<>> => all_qsos = <<>>
      ]_vars
\* the transport failed on the second request, after a first page of
\* PAGE_SIZE records: the caller got the error only
C20_Witness ==
    /\ pc = "raised" /\ branch = "transport"
    /\ page_num = 2 /\ Len(all_qsos) = PAGE_SIZE
    /\ outcome.kind = "raise" /\ outcome.value = <<>>

====
